---- MODULE Spec2Model ----
(***************************************************************************)
(* The Graphiti temporal knowledge graph service of Alfie Business        *)
(* Manager: the GraphitiClient connection manager and its operations      *)
(* (graphiti_client.py) and the health endpoints of the two FastAPI       *)
(* entry points (main.py, server.py).                                     *)
(*                                                                         *)
(* The service runs on one asyncio event loop.  A coroutine runs without  *)
(* interruption until it awaits I/O, so every action below is one such    *)
(* uninterrupted stretch of code: from a call, or from the completion of  *)
(* an awaited store call, up to the next await that suspends or to the    *)
(* return.  The awaits that suspend are the calls into the store:         *)
(* build_indices_and_constraints, the close of the connection, and the    *)
(* store call of each core operation.                                     *)
(***************************************************************************)
EXTENDS Bags, Integers, Sequences, FiniteSets, TLC

\* Number of coroutines (request handlers, callers of the client) in flight.
NumTasks == 2
\* Number of top-level calls made over one run.
MaxCalls == 3

Tasks == 1..NumTasks

\* self.graphiti = None
NoConn == 0

CoreOps == {"add_episode", "search", "get_nodes", "get_edges", "clear_graph"}

VARIABLES
    _client,          \* module global _client: "None" or "GraphitiClient"
    graphiti_client,  \* server.py's module global graphiti_client
    graphiti,         \* self.graphiti: NoConn, or the index of a Graphiti object
    _initialized,     \* self._initialized
    closeCalls,       \* closeCalls[c]: calls of close() on Graphiti object c;
                      \* its length is the number of Graphiti objects constructed
    provRuns,         \* build_indices_and_constraints calls since the client was
                      \* created or last put back to not initialized by close()
    closedDone,       \* a close() of the client has completed
    storeUp,          \* the graph store is reachable
    task,             \* task[t]: where coroutine t stands
    calls,            \* top-level calls made so far
    ev,               \* what the step just taken did
    created,          \* GraphitiClient objects constructed so far
    nodes,            \* Entity nodes in the store
    edges,            \* RELATES_TO edges in the store
    cleared,          \* "wiped"/"empty": clear_graph has succeeded (on a graph
                      \* with/without content) and nothing was ingested since
    now,              \* the value datetime.now() returns
    episodes,         \* the calls of the ingestion pipeline made so far
    req,              \* req[t]: the arguments and partial results of task t
    resp              \* the response returned by the step just taken

vars == <<_client, graphiti_client, graphiti, _initialized, closeCalls,
          provRuns, closedDone, storeUp, task, calls, ev, created>>

\* The store's content, the clock and the requests and responses in detail.
gvars == <<nodes, edges, cleared, now, episodes, req, resp>>

allvars == <<vars, gvars>>

\* Task t holds no request; the step returned no response.
NoReq == [kind |-> "none"]

NoOut == [kind |-> "none"]

Idle == [pc |-> "idle", op |-> "none", sub |-> "none", conn |-> NoConn, acc |-> "none"]

\* ev: op is the top-level operation that stepped; call says the step is its
\* call (not a resumption); init is what initialize() did in the step; prov is
\* the outcome of build_indices_and_constraints when the step resumed from it;
\* res is what the step returned to the operation's caller ("none": it awaits).
Ev(op, call, init, prov, res) ==
    [op |-> op, call |-> call, init |-> init, prov |-> prov, res |-> res]

\* The fields of the client that the synchronous part of initialize() writes.
St == [graphiti |-> graphiti, closeCalls |-> closeCalls, provRuns |-> provRuns]

(***************************************************************************)
(* GraphitiClient.initialize                                               *)
(***************************************************************************)

\* The entry check left out: every call runs the body again.
AlreadyInitialized_m(flag) == FALSE

\* The check of initialize() on entry: if self._initialized: return True
AlreadyInitialized(flag) == flag

\* A failed construction that leaves self.graphiti unset.
CtorRaised_m(s) == [s EXCEPT !.graphiti = NoConn]

\* self.graphiti = Graphiti(...) when the constructor raises: the assignment
\* is not executed and the client keeps the connection it had.
CtorRaised(s) == s

\* initialize() from its call to its first await.  The constructor Graphiti(...)
\* is a plain synchronous call: it either raises (the outer except returns
\* False and self.graphiti keeps its value) or returns a new object, which is
\* assigned to self.graphiti before build_indices_and_constraints is awaited.
\* No lock is taken and self._initialized is written only after the await.
InitEntry(s, ctorOk) ==
    IF AlreadyInitialized(_initialized)
    THEN [init |-> "ready", s |-> s]
    ELSE IF ctorOk
         THEN [init |-> "await",
               s |-> [graphiti   |-> Len(s.closeCalls) + 1,
                      closeCalls |-> Append(s.closeCalls, 0),
                      provRuns   |-> s.provRuns + 1]]
         ELSE [init |-> "raise", s |-> CtorRaised(s)]

\* What initialize() returns when it does not await.
InitReturn(init) == IF init = "ready" THEN "true" ELSE "false"

\* The inner except re-raising what is not "already exists".
IndexError_m(out) ==
    CASE out = "ok"     -> "continue"
      [] out = "exists" -> "continue"
      [] out = "other"  -> "raise"

\* The inner except of initialize(): what is done with an exception of
\* build_indices_and_constraints.  Both branches only print.
IndexError(out) ==
    CASE out = "ok"     -> "continue"
      [] out = "exists" -> "continue"
      [] out = "other"  -> "continue"

(***************************************************************************)
(* The core operations                                                     *)
(***************************************************************************)

\* clear_graph without the lazy initialize().
LazyInit_m(o) == o \in {"add_episode", "search", "get_nodes", "get_edges"}

\* The operations that start with: if not self._initialized: await self.initialize()
LazyInit(o) == o \in {"add_episode", "search", "get_nodes", "get_edges", "clear_graph"}

\* An except clause that catches the store's errors only.
Catch_m(exc) ==
    CASE exc = "AttributeError" -> "raised"
      [] exc = "StoreError"     -> "fail"

\* The except clause of a core operation: except Exception -> failure envelope.
Catch(exc) ==
    CASE exc = "AttributeError" -> "fail"
      [] exc = "StoreError"     -> "fail"

\* The start of the try block of core operation o: self.graphiti is
\* dereferenced (None raises AttributeError inside the try) and the store
\* call is awaited on that object.
BodyStart(o, g) ==
    IF g = NoConn
    THEN [pc |-> "idle", conn |-> NoConn, res |-> Catch("AttributeError")]
    ELSE [pc |-> "store", conn |-> g, res |-> "none"]

\* Core operation o from its call to its first await or its return.
CoreEntry(o, s, ctorOk) ==
    LET i == IF LazyInit(o) /\ ~_initialized
             THEN InitEntry(s, ctorOk)
             ELSE [init |-> "none", s |-> s]
    IN  IF i.init = "await"
        THEN [init |-> "await", s |-> i.s, pc |-> "build",
              conn |-> i.s.graphiti, res |-> "none"]
        ELSE LET b == BodyStart(o, i.s.graphiti)
             IN  [init |-> i.init, s |-> i.s, pc |-> b.pc,
                  conn |-> b.conn, res |-> b.res]

\* A snapshot that reports the success of get_nodes alone.
GraphSuccess_m(n, e) == IF n = "ok" THEN "ok" ELSE "fail"

\* get_graph_data: "success": nodes_result["success"] and edges_result["success"]
GraphSuccess(n, e) == IF n = "ok" /\ e = "ok" THEN "ok" ELSE "fail"

\* get_graph_data after get_nodes returned n: get_edges(limit=500) is called.
GraphEdges(n, s, ctorOk) ==
    IF n = "raised"
    THEN [init |-> "none", s |-> s, pc |-> "idle", conn |-> NoConn,
          res |-> "raised", sub |-> "none", acc |-> "none"]
    ELSE LET e == CoreEntry("get_edges", s, ctorOk)
         IN  IF e.pc = "idle"
             THEN [init |-> e.init, s |-> e.s, pc |-> "idle", conn |-> NoConn,
                   res |-> IF e.res = "raised" THEN "raised" ELSE GraphSuccess(n, e.res),
                   sub |-> "none", acc |-> "none"]
             ELSE [init |-> e.init, s |-> e.s, pc |-> e.pc, conn |-> e.conn,
                   res |-> "none", sub |-> "get_edges", acc |-> n]

\* get_graph_data from its call: get_nodes(limit=200), then get_edges.
GraphEntry(s, c1, c2) ==
    LET n == CoreEntry("get_nodes", s, c1)
    IN  IF n.pc = "idle"
        THEN LET e == GraphEdges(n.res, n.s, c2)
             IN  [e EXCEPT !.init = IF e.init = "none" THEN n.init ELSE e.init]
        ELSE [init |-> n.init, s |-> n.s, pc |-> n.pc, conn |-> n.conn,
              res |-> "none", sub |-> "get_nodes", acc |-> "none"]

(***************************************************************************)
(* The health endpoints                                                    *)
(***************************************************************************)

\* main.py health_check: "healthy" unless get_graphiti_client() raised.
HealthMain(raised) == IF raised THEN "unhealthy" ELSE "healthy"

\* server.py health_check: "ok" unless initialize() raised; the value
\* initialize() returns is not looked at.
HealthServer(raised) == IF raised THEN "error" ELSE "ok"

(***************************************************************************)
(* Initial state: the module is imported, nothing has been called.         *)
(***************************************************************************)
Init ==
    /\ _client = "None"
    /\ graphiti_client = "None"
    /\ graphiti = NoConn
    /\ _initialized = FALSE
    /\ closeCalls = << >>
    /\ provRuns = 0
    /\ closedDone = FALSE
    /\ storeUp \in BOOLEAN
    /\ task = [t \in Tasks |-> Idle]
    /\ calls = 0
    /\ ev = Ev("none", FALSE, "none", "none", "none")
    /\ created = 0
    /\ nodes = 0
    /\ edges = 0
    /\ cleared = "none"
    /\ now = 0
    /\ episodes = EmptyBag
    /\ req = [t \in Tasks |-> NoReq]
    /\ resp = NoOut

\* Coroutine t makes a new top-level call.  Idle coroutines are
\* interchangeable: the call takes the first idle one.
Call(t) ==
    /\ task[t].pc = "idle"
    /\ \A u \in Tasks : u < t => task[u].pc # "idle"
    /\ calls < MaxCalls
    /\ calls' = calls + 1

\* The step writes task t and the synchronously written client fields.
Commit(t, tk, s, e) ==
    /\ task' = [task EXCEPT ![t] = tk]
    /\ graphiti' = s.graphiti
    /\ closeCalls' = s.closeCalls
    /\ provRuns' = s.provRuns
    /\ ev' = e

\* A step that starts from the current client: either it awaits
\* build_indices_and_constraints or it has returned res.
InitStep(t, o, i, res) ==
    IF i.init = "await"
    THEN Commit(t, [Idle EXCEPT !.pc = "build", !.op = o, !.conn = i.s.graphiti],
                i.s, Ev(o, TRUE, "await", "none", "none"))
    ELSE Commit(t, Idle, i.s, Ev(o, TRUE, i.init, "none", res))

(***************************************************************************)
(* Calls                                                                   *)
(***************************************************************************)

\* A get_graphiti_client() that constructs a client on every call.
ClientMissing_m(c) == TRUE

\* The check of get_graphiti_client(): if _client is None.  The check, the
\* construction and the assignment of _client run without an await between
\* them; the await of initialize() comes after the assignment.
ClientMissing(c) == c = "None"

\* get_graphiti_client(): the first caller creates the client and awaits its
\* initialize(); _client is assigned before that await.
get_graphiti_client(t) ==
    /\ Call(t)
    /\ \E ctorOk \in BOOLEAN :
         LET i == IF ClientMissing(_client)
                  THEN InitEntry(St, ctorOk)
                  ELSE [init |-> "none", s |-> St]
         IN  InitStep(t, "get_graphiti_client", i, "client")
    /\ _client' = "GraphitiClient"
    /\ created' = IF ClientMissing(_client) THEN created + 1 ELSE created
    /\ UNCHANGED <<graphiti_client, _initialized, closedDone, storeUp>>

\* server.py startup_event: graphiti_client = await get_graphiti_client()
startup_event(t) ==
    /\ Call(t)
    /\ graphiti_client = "None"
    /\ \A u \in Tasks : task[u].op # "startup_event"
    /\ \E ctorOk \in BOOLEAN :
         LET i == IF ClientMissing(_client)
                  THEN InitEntry(St, ctorOk)
                  ELSE [init |-> "none", s |-> St]
         IN  /\ InitStep(t, "startup_event", i, "started")
             /\ graphiti_client' = IF i.init = "await" THEN graphiti_client
                                   ELSE "GraphitiClient"
    /\ _client' = "GraphitiClient"
    /\ created' = IF ClientMissing(_client) THEN created + 1 ELSE created
    /\ UNCHANGED <<_initialized, closedDone, storeUp>>

\* client.initialize() called directly.
initialize(t) ==
    /\ Call(t)
    /\ _client # "None"
    /\ \E ctorOk \in BOOLEAN :
         LET i == InitEntry(St, ctorOk)
         IN  InitStep(t, "initialize", i, InitReturn(i.init))
    /\ UNCHANGED <<_client, created, graphiti_client, _initialized, closedDone, storeUp>>

\* A core operation o called on the client.
CoreCall(t, o) ==
    /\ Call(t)
    /\ _client # "None"
    /\ \E ctorOk \in BOOLEAN :
         LET r == CoreEntry(o, St, ctorOk)
         IN  Commit(t,
                    IF r.pc = "idle" THEN Idle
                    ELSE [pc |-> r.pc, op |-> o, sub |-> o, conn |-> r.conn,
                          acc |-> "none"],
                    r.s, Ev(o, TRUE, r.init, "none", r.res))
    /\ UNCHANGED <<_client, created, graphiti_client, _initialized, closedDone, storeUp>>

add_episode(t) == CoreCall(t, "add_episode")

search(t) == CoreCall(t, "search")

get_nodes(t) == CoreCall(t, "get_nodes")

get_edges(t) == CoreCall(t, "get_edges")

clear_graph(t) == CoreCall(t, "clear_graph")

\* get_graph_data() called on the client.
get_graph_data(t) ==
    /\ Call(t)
    /\ _client # "None"
    /\ \E c1 \in BOOLEAN, c2 \in BOOLEAN :
         LET r == GraphEntry(St, c1, c2)
         IN  Commit(t,
                    IF r.pc = "idle" THEN Idle
                    ELSE [pc |-> r.pc, op |-> "get_graph_data", sub |-> r.sub,
                          conn |-> r.conn, acc |-> r.acc],
                    r.s, Ev("get_graph_data", TRUE, r.init, "none", r.res))
    /\ UNCHANGED <<_client, created, graphiti_client, _initialized, closedDone, storeUp>>

\* close(): if self.graphiti: await self.graphiti.close()
close(t) ==
    /\ Call(t)
    /\ _client # "None"
    /\ IF graphiti = NoConn
       THEN /\ task' = task
            /\ closeCalls' = closeCalls
            /\ ev' = Ev("close", TRUE, "none", "none", "noop")
       ELSE /\ task' = [task EXCEPT ![t] = [Idle EXCEPT !.pc = "closing",
                                            !.op = "close", !.conn = graphiti]]
            /\ closeCalls' = [closeCalls EXCEPT ![graphiti] = @ + 1]
            /\ ev' = Ev("close", TRUE, "none", "none", "none")
    /\ UNCHANGED <<_client, created, graphiti_client, graphiti, _initialized, provRuns,
                   closedDone, storeUp>>

\* main.py GET /health: get_graphiti_client() returns the existing client.
health_main(t) ==
    /\ Call(t)
    /\ _client # "None"
    /\ ev' = Ev("health_main", TRUE, "none", "none", HealthMain(FALSE))
    /\ UNCHANGED <<_client, created, graphiti_client, graphiti, _initialized, closeCalls,
                   provRuns, closedDone, storeUp, task>>

\* server.py GET /health, served once startup_event has set graphiti_client:
\* await graphiti_client.initialize()
health_server(t) ==
    /\ Call(t)
    /\ graphiti_client # "None"
    /\ \E ctorOk \in BOOLEAN :
         LET i == InitEntry(St, ctorOk)
         IN  InitStep(t, "health_server", i, HealthServer(FALSE))
    /\ UNCHANGED <<_client, created, graphiti_client, _initialized, closedDone, storeUp>>

(***************************************************************************)
(* Resumptions                                                             *)
(***************************************************************************)

\* The core sub-operation sub of operation o has returned r.
SubReturn(o, sub, acc, r, s, ctorOk) ==
    IF o = "get_graph_data" /\ sub = "get_nodes"
    THEN GraphEdges(r, s, ctorOk)
    ELSE [init |-> "none", s |-> s, pc |-> "idle", conn |-> NoConn,
          res |-> IF o = "get_graph_data" /\ r # "raised"
                  THEN GraphSuccess(acc, r) ELSE r,
          sub |-> "none", acc |-> "none"]

\* Task t continues with x, the outcome of a sub-operation's step.
Continue(t, x, init, prov) ==
    Commit(t,
           IF x.pc = "idle" THEN Idle
           ELSE [pc |-> x.pc, op |-> task[t].op, sub |-> x.sub, conn |-> x.conn,
                 acc |-> x.acc],
           x.s,
           Ev(task[t].op, FALSE, IF x.init = "none" THEN init ELSE x.init,
              prov, x.res))

\* build_indices_and_constraints completes in task t: it succeeded (out =
\* "ok") or raised, with EquivalentSchemaRuleAlreadyExists (out = "exists") or
\* with something else (out = "other"); an unreachable store makes it raise.
\* initialize() then sets self._initialized and returns True, and its caller
\* goes on.
BuildResume(t) ==
    /\ task[t].pc = "build"
    /\ \E out \in {"ok", "exists", "other"}, ctorOk \in BOOLEAN :
         /\ out \in {"ok", "exists"} => storeUp
         /\ LET o     == task[t].op
                fatal == IndexError(out) = "raise"
                init  == IF fatal THEN "abort" ELSE "done"
            IN  /\ _initialized' = IF fatal THEN _initialized ELSE TRUE
                /\ graphiti_client' = IF o = "startup_event" THEN "GraphitiClient"
                                      ELSE graphiti_client
                /\ IF o \in CoreOps \cup {"get_graph_data"}
                   THEN LET b == BodyStart(task[t].sub, graphiti)
                        IN  IF b.pc = "idle"
                            THEN Continue(t, SubReturn(o, task[t].sub, task[t].acc,
                                                       b.res, St, ctorOk),
                                          init, out)
                            ELSE Commit(t, [task[t] EXCEPT !.pc = b.pc,
                                                           !.conn = b.conn],
                                        St, Ev(o, FALSE, init, out, "none"))
                   ELSE Commit(t, Idle, St,
                               Ev(o, FALSE, init, out,
                                  CASE o = "initialize" ->
                                           IF fatal THEN "false" ELSE "true"
                                    [] o = "get_graphiti_client" -> "client"
                                    [] o = "startup_event" -> "started"
                                    [] o = "health_server" -> HealthServer(FALSE)))
    /\ UNCHANGED <<_client, created, closedDone, storeUp, calls>>

\* The store call of a core operation completes in task t: it returned
\* (only a reachable store answers) or raised.
StoreDone(t, res, ctorOk) ==
    /\ task[t].pc = "store"
    /\ res = "ok" => storeUp
    /\ LET r == IF res = "ok" THEN "ok" ELSE Catch("StoreError")
       IN  Continue(t, SubReturn(task[t].op, task[t].sub, task[t].acc,
                                 r, St, ctorOk),
                    "none", "none")
    /\ UNCHANGED <<_client, created, graphiti_client, _initialized, closedDone,
                   storeUp, calls>>

StoreResume(t) ==
    \E res \in {"ok", "exc"}, ctorOk \in BOOLEAN : StoreDone(t, res, ctorOk)

\* self.graphiti.close() completes in task t.  close() has no try: if the
\* call raised, the exception leaves close() and self._initialized keeps its
\* value; otherwise self._initialized = False.  self.graphiti is not reset.
CloseResume(t) ==
    /\ task[t].pc = "closing"
    /\ \E out \in {"ok", "exc"} :
         /\ _initialized' = IF out = "ok" THEN FALSE ELSE _initialized
         /\ closedDone' = IF out = "ok" THEN TRUE ELSE closedDone
         /\ provRuns' = IF out = "ok" THEN 0 ELSE provRuns
         /\ ev' = Ev("close", FALSE, "none", "none",
                     IF out = "ok" THEN "closed" ELSE "raised")
    /\ task' = [task EXCEPT ![t] = Idle]
    /\ UNCHANGED <<_client, created, graphiti_client, graphiti, closeCalls, storeUp, calls>>

(***************************************************************************)
(* The environment                                                         *)
(***************************************************************************)
StoreFail ==
    /\ storeUp
    /\ storeUp' = FALSE
    /\ ev' = Ev("env", FALSE, "none", "none", "none")
    /\ UNCHANGED <<_client, created, graphiti_client, graphiti, _initialized, closeCalls,
                   provRuns, closedDone, task, calls>>

StoreRecover ==
    /\ ~storeUp
    /\ storeUp' = TRUE
    /\ ev' = Ev("env", FALSE, "none", "none", "none")
    /\ UNCHANGED <<_client, created, graphiti_client, graphiti, _initialized, closeCalls,
                   provRuns, closedDone, task, calls>>

\* The connection manager: the content of the store, the clock and the
\* requests and responses in detail are not followed.
Frozen == UNCHANGED gvars

Next ==
    \/ \E t \in Tasks :
        \/ get_graphiti_client(t) /\ Frozen
        \/ startup_event(t) /\ Frozen
        \/ initialize(t) /\ Frozen
        \/ close(t) /\ Frozen
        \/ add_episode(t) /\ Frozen
        \/ search(t) /\ Frozen
        \/ get_nodes(t) /\ Frozen
        \/ get_edges(t) /\ Frozen
        \/ get_graph_data(t) /\ Frozen
        \/ clear_graph(t) /\ Frozen
        \/ health_main(t) /\ Frozen
        \/ health_server(t) /\ Frozen
        \/ BuildResume(t) /\ Frozen
        \/ StoreResume(t) /\ Frozen
        \/ CloseResume(t) /\ Frozen
    \/ StoreFail /\ Frozen
    \/ StoreRecover /\ Frozen

Spec == Init /\ [][Next]_vars

(***************************************************************************)
(* Properties                                                              *)
(***************************************************************************)

AllCoreOps == CoreOps \cup {"get_graph_data"}

StartupOps == {"startup_event", "get_graphiti_client"}

\* C1: schema provisioning (build_indices_and_constraints) runs at most once
\* for one transition of the client from not initialized to Ready, whatever
\* the interleaving of the initialize() calls.
C1_ProvisionedOnce == provRuns <= 1

\* C2: the client holds one connection: every Graphiti object that is no
\* longer self.graphiti was closed before it was replaced, so that at most
\* one constructed connection is open.
C2_OneConnection ==
    \A c \in DOMAIN closeCalls : c # graphiti => closeCalls[c] >= 1

\* C3 as stated: when build_indices_and_constraints fails with a cause other
\* than "already exists", initialize() reports failure and the client is not
\* Ready.
C3_OtherFailureAborts ==
    ev.prov = "other" =>
        /\ ~_initialized
        /\ ev.op = "initialize" => ev.res = "false"

\* C3 as amended: a failure of build_indices_and_constraints, "already
\* exists" or any other, is not fatal: initialize() goes on, reports success
\* and the client is Ready.  initialize() reports failure only when the
\* construction of the connection raised, and the client is then not Ready.
C3_IndexFailureNonFatal ==
    /\ ev.prov \in {"exists", "other"} =>
           /\ _initialized
           /\ ev.init = "done"
           /\ ev.op = "initialize" => ev.res = "true"
    /\ (ev.op = "initialize" /\ ev.res = "false") => ev.init = "raise"
    /\ ev.init = "raise" => ~_initialized

\* C3 witness: a direct initialize() whose provisioning failed with another
\* cause has returned True and the client is Ready.
C3_Witness ==
    /\ ev.op = "initialize"
    /\ ev.prov = "other"
    /\ ev.res = "true"
    /\ _initialized

\* C4: initialize() called while the client is Ready returns True at once,
\* runs no provisioning, constructs no connection and leaves the client and
\* every coroutine as they were.
C4_InitializeIdempotent ==
    [][(_initialized /\ ev'.call /\ ev'.op \in {"initialize", "health_server"}) =>
          /\ ev'.init = "ready"
          /\ ev'.op = "initialize" => ev'.res = "true"
          /\ UNCHANGED <<graphiti, _initialized, closeCalls, provRuns, task,
                         closedDone, _client>>]_vars

\* C4 witness: initialize() was called on a Ready client with a connection
\* and has returned True.
C4_Witness ==
    /\ ev.op = "initialize"
    /\ ev.call
    /\ ev.init = "ready"
    /\ ev.res = "true"
    /\ _initialized
    /\ graphiti # NoConn
    /\ provRuns = 1

\* C5: close() releases a connection once: a close() called on a client that
\* is already closed (its connection's close has been called and completed)
\* is a no-op and does not call the connection's close again.
C5_ClosedOnce ==
    [][(/\ closedDone
        /\ ~_initialized
        /\ graphiti # NoConn
        /\ closeCalls[graphiti] >= 1
        /\ \A t \in Tasks : task[t].pc = "idle"
        /\ ev'.call
        /\ ev'.op = "close") =>
          (closeCalls' = closeCalls /\ ev'.res = "noop")]_vars

\* C6: Closed is terminal: an operation called after close() has completed,
\* on the closed client, constructs no connection and does not start an
\* initialization.
C6_ClosedTerminal ==
    [][(/\ closedDone
        /\ ~_initialized
        /\ \A t \in Tasks : task[t].pc = "idle"
        /\ ev'.call) =>
          /\ Len(closeCalls') = Len(closeCalls)
          /\ ev'.init \notin {"await", "done"}]_vars

\* C7: a core operation that returns, returns an envelope (success or
\* failure): it never raises, whatever the store does and whatever the state
\* of the client, without a connection object included.
C7_AlwaysEnvelope ==
    (ev.op \in AllCoreOps /\ ev.res # "none") => ev.res \in {"ok", "fail"}

\* C7 witness: a core operation called on a client whose initialization
\* failed and that has no connection object has returned a failure envelope.
C7_Witness ==
    /\ ev.op \in AllCoreOps
    /\ ev.call
    /\ ev.init = "raise"
    /\ graphiti = NoConn
    /\ ev.res = "fail"

\* C8 as stated, first part: when startup completes with the store
\* unreachable, the client is not Ready.
C8_UnreachableNotReady ==
    (ev.op \in StartupOps /\ ev.res \in {"started", "client"} /\ ~storeUp)
        => ~_initialized

\* C8 as amended: startup always completes; when the construction of the
\* connection raised at startup the client is not Ready; every core
\* operation called while the client is not Ready runs initialize() again
\* before its work; and an initialize() whose construction succeeded makes
\* the client Ready when its provisioning call completes, whatever the
\* outcome of that call (an unreachable store does not keep the client from
\* Ready).
C8_LazyReinitialize ==
    [][/\ (ev'.op \in StartupOps /\ ev'.call /\ ev'.init = "raise") =>
              (ev'.res \in {"started", "client"} /\ ~_initialized')
       /\ (ev'.call /\ ev'.op \in AllCoreOps /\ ~_initialized) =>
              ev'.init \in {"raise", "await"}
       /\ ev'.prov # "none" => _initialized']_vars

\* C8 witness: startup is over without any connection constructed, and a core
\* operation called later has constructed the only connection and brought
\* the client to Ready.
C8_Witness ==
    /\ graphiti_client = "GraphitiClient"
    /\ ev.op \in CoreOps
    /\ ev.init = "done"
    /\ _initialized
    /\ Len(closeCalls) = 1
    /\ ~closedDone

\* C9: GET /health answered while the store is unreachable, after
\* initialization has failed (no initialize() is in flight and the client is
\* not Ready), reports an unhealthy status.
C9_HealthUnhealthy ==
    (/\ ev.op \in {"health_main", "health_server"}
     /\ ev.res # "none"
     /\ ~storeUp
     /\ ~_initialized
     /\ \A t \in Tasks : task[t].pc # "build")
        => ev.res \in {"unhealthy", "error"}

(***************************************************************************)
(* The store's content and the responses in detail                         *)
(*                                                                         *)
(* An array of nodes or edges is followed by its length.                   *)
(***************************************************************************)

\* get_graph_data: get_nodes(limit=200) and get_edges(limit=500)
NodesLimit == 200

EdgesLimit == 500

\* get_nodes(self, limit: int = 100)
DefaultLimit == 100

\* The limits a caller passes.
Limits == {0, 1, DefaultLimit}

\* A large graph: more nodes than NodesLimit, more edges than EdgesLimit.
BigNodes == 250

BigEdges == 600

\* The entities and relations the ingestion pipeline extracts from an episode.
EpisodeNodes == 2

EpisodeEdges == 1

\* A query without its LIMIT clause.
Limit_m(n, lim) == n

\* The LIMIT $limit clause of the Cypher queries of get_nodes and get_edges:
\* of n matching rows, at most lim are returned.
Limit(n, lim) == IF n < lim THEN n ELSE lim

\* A clear_graph() whose query deletes nothing.
Wipe_m(n) == n

\* clear_graph: MATCH (n) DETACH DELETE n leaves no node and no edge.
Wipe(n) == 0

\* r.get(k, d)
Get(r, k, d) == IF k \in DOMAIN r THEN r[k] ELSE d

\* A get_nodes whose count is the number of Entity nodes in the store.
NodesResult_m(r, lim) ==
    IF r = "ok"
    THEN [success |-> TRUE, nodes |-> Limit(nodes, lim), count |-> nodes]
    ELSE [success |-> FALSE, nodes |-> 0, error |-> "str(e)"]

\* What get_nodes(limit=lim) returns when its outcome is r: the success
\* envelope with the rows of the query, or the failure envelope of its except
\* clause, which has an empty array and no count.
NodesResult(r, lim) ==
    IF r = "ok"
    THEN [success |-> TRUE, nodes |-> Limit(nodes, lim), count |-> Limit(nodes, lim)]
    ELSE [success |-> FALSE, nodes |-> 0, error |-> "str(e)"]

\* What get_edges(limit=lim) returns when its outcome is r.
EdgesResult(r, lim) ==
    IF r = "ok"
    THEN [success |-> TRUE, edges |-> Limit(edges, lim), count |-> Limit(edges, lim)]
    ELSE [success |-> FALSE, edges |-> 0, error |-> "str(e)"]

\* The dictionary get_graph_data() builds from the results n and e of its
\* two calls; res is the value of its "success" entry.
Snapshot(n, e, res) ==
    [success    |-> res = "ok",
     nodes      |-> Get(n, "nodes", 0),
     links      |-> Get(e, "edges", 0),
     node_count |-> Get(n, "count", 0),
     edge_count |-> Get(e, "count", 0)]

\* The limit of the query of sub-operation sub of operation o called with lim.
SubLimit(o, sub, lim) ==
    IF o = "get_graph_data"
    THEN IF sub = "get_nodes" THEN NodesLimit ELSE EdgesLimit
    ELSE lim

\* What operation o returns to its caller.  For a snapshot, the results of
\* the two calls it was built from are kept beside it, and clean tells that
\* the call was made after a successful clear_graph() and that nothing was
\* ingested from that clear_graph() to the last read of the call.
Response(o, lim, n, e, res, clean) ==
    CASE o = "get_nodes"      -> [kind |-> "nodes", limit |-> lim, result |-> n]
      [] o = "get_edges"      -> [kind |-> "edges", limit |-> lim, result |-> e]
      [] o = "get_graph_data" -> [kind |-> "snapshot", clean |-> clean,
                                  nodes_result |-> n, edges_result |-> e,
                                  data |-> Snapshot(n, e, res)]
      [] o = "add_episode"    -> [kind |-> "episode", success |-> res = "ok"]
      [] o = "clear_graph"    -> [kind |-> "cleared", success |-> res = "ok"]

\* The request of task t and the response after a step of t in which the
\* current sub-operation had outcome r ("none": it goes on).
Pay(t, r) ==
    LET o     == task[t].op
        sub   == task[t].sub
        lim   == req[t].limit
        back  == task'[t].pc = "idle"
        n     == IF sub = "get_nodes" /\ r # "none"
                 THEN NodesResult(r, SubLimit(o, sub, lim))
                 ELSE req[t].n
        e     == IF sub = "get_edges" /\ r # "none"
                 THEN EdgesResult(r, SubLimit(o, sub, lim))
                 ELSE EdgesResult("fail", EdgesLimit)
        clean == req[t].clean /\ (r = "ok" => cleared # "none")
    IN  /\ req' = [req EXCEPT ![t] = IF back THEN NoReq
                                     ELSE [req[t] EXCEPT !.n = n, !.clean = clean]]
        /\ resp' = IF back THEN Response(o, lim, n, e, ev'.res, clean) ELSE NoOut

\* The request and the response after the call of operation o by task t:
\* nothing has been read from the store yet, and a sub-operation that is
\* over has failed.
PayCall(t, o, lim) ==
    LET back  == task'[t].pc = "idle"
        n     == NodesResult("fail", NodesLimit)
        e     == EdgesResult("fail", EdgesLimit)
        clean == cleared # "none"
    IN  /\ req' = [req EXCEPT ![t] = IF back THEN NoReq
                                     ELSE [kind |-> o, limit |-> lim, n |-> n,
                                           clean |-> clean]]
        /\ resp' = IF back THEN Response(o, lim, n, e, ev'.res, clean) ELSE NoOut

\* The effect on the store of the store call of sub-operation sub, which
\* returned (res = "ok") or raised.  An ingestion writes what the pipeline
\* extracted; one that raised may have written it already.
StoreEffect(sub, res) ==
    CASE sub = "add_episode" ->
             /\ \E wrote \in BOOLEAN :
                  /\ res = "ok" => wrote
                  /\ nodes' = IF wrote THEN nodes + EpisodeNodes ELSE nodes
                  /\ edges' = IF wrote THEN edges + EpisodeEdges ELSE edges
             /\ cleared' = "none"
      [] sub = "clear_graph" /\ res = "ok" ->
             /\ nodes' = Wipe(nodes)
             /\ edges' = Wipe(edges)
             /\ cleared' = IF nodes + edges > 0 THEN "wiped"
                           ELSE IF cleared = "none" THEN "empty" ELSE cleared
      [] OTHER -> UNCHANGED <<nodes, edges, cleared>>

(***************************************************************************)
(* The service after startup, with the content of its store                *)
(***************************************************************************)

\* lifespan / startup_event have run and initialize() has succeeded: the
\* client exists and is Ready on its first connection.  The store is
\* persistent: it is empty or holds a large graph.  It is reachable; a query
\* may fail all the same.  close() is not called while the service runs (the
\* lifespan calls it at shutdown), so that the client stays Ready and no
\* operation awaits initialize().
GraphInit ==
    /\ _client = "GraphitiClient"
    /\ graphiti_client = "GraphitiClient"
    /\ created = 1
    /\ _initialized = TRUE
    /\ graphiti = 1
    /\ closeCalls = <<0>>
    /\ provRuns = 1
    /\ closedDone = FALSE
    /\ storeUp = TRUE
    /\ task = [t \in Tasks |-> Idle]
    /\ calls = 0
    /\ ev = Ev("none", FALSE, "none", "none", "none")
    /\ \E big \in BOOLEAN :
         /\ nodes = IF big THEN BigNodes ELSE 0
         /\ edges = IF big THEN BigEdges ELSE 0
    /\ cleared = "none"
    /\ now = 0
    /\ episodes = EmptyBag
    /\ req = [t \in Tasks |-> NoReq]
    /\ resp = NoOut

add_episode_g(t) ==
    /\ add_episode(t)
    /\ PayCall(t, "add_episode", 0)
    /\ UNCHANGED <<nodes, edges, cleared, now, episodes>>

clear_graph_g(t) ==
    /\ clear_graph(t)
    /\ PayCall(t, "clear_graph", 0)
    /\ UNCHANGED <<nodes, edges, cleared, now, episodes>>

get_nodes_g(t) ==
    /\ get_nodes(t)
    /\ \E lim \in Limits : PayCall(t, "get_nodes", lim)
    /\ UNCHANGED <<nodes, edges, cleared, now, episodes>>

get_edges_g(t) ==
    /\ get_edges(t)
    /\ \E lim \in Limits : PayCall(t, "get_edges", lim)
    /\ UNCHANGED <<nodes, edges, cleared, now, episodes>>

get_graph_data_g(t) ==
    /\ get_graph_data(t)
    /\ PayCall(t, "get_graph_data", 0)
    /\ UNCHANGED <<nodes, edges, cleared, now, episodes>>

\* The store call completes: the query has read or written the store.
StoreResume_g(t) ==
    /\ \E res \in {"ok", "exc"}, ctorOk \in BOOLEAN :
         /\ StoreDone(t, res, ctorOk)
         /\ Pay(t, IF res = "ok" THEN "ok" ELSE Catch("StoreError"))
         /\ StoreEffect(task[t].sub, res)
    /\ UNCHANGED <<now, episodes>>

NextGraph ==
    \E t \in Tasks :
        \/ add_episode_g(t)
        \/ clear_graph_g(t)
        \/ get_nodes_g(t)
        \/ get_edges_g(t)
        \/ get_graph_data_g(t)
        \/ StoreResume_g(t)

SpecGraph == GraphInit /\ [][NextGraph]_allvars

(***************************************************************************)
(* The HTTP handlers of main.py and server.py                              *)
(*                                                                         *)
(* A text is followed as the sequence of its lines, "" being <<>>; a line  *)
(* "ROLE: content" is the pair <<ROLE, content>>.                          *)
(***************************************************************************)

\* The last value the clock is followed to.
MaxTime == 1

MsgUser == [role |-> "user", content |-> "I like coffee"]

MsgAssistant == [role |-> "assistant", content |-> "Noted, you like coffee"]

\* The POST /conversations requests: an ordered list of {role, content}
\* messages and a session_id (Optional, default None).
ConversationRequests ==
    {[messages |-> <<MsgUser, MsgAssistant>>, session_id |-> "s1"],
     [messages |-> <<MsgAssistant>>, session_id |-> "None"]}

\* The source / source_name of the POST /episodes requests.
Sources == {"alfie_conversation", "crm"}

\* str.upper()
Upper(r) ==
    CASE r = "user"      -> "USER"
      [] r = "assistant" -> "ASSISTANT"
      [] r = "unknown"   -> "UNKNOWN"
      [] OTHER           -> r

\* main.py: f"{msg.get('role', 'unknown').upper()}: {msg.get('content', '')}"
Line(msg) == <<Upper(Get(msg, "role", "unknown")), Get(msg, "content", "")>>

\* main.py: "\n".join([... for msg in request.messages])
ConversationText(messages) == [i \in 1..Len(messages) |-> Line(messages[i])]

\* main.py: f"alfie_session_{request.session_id}" if request.session_id
\*          else "alfie_conversation"
SessionSource(sid) ==
    IF sid = "None" THEN "alfie_conversation" ELSE "alfie_session_" \o sid

\* add_episode: name=f"{source_name}_{datetime.now().isoformat()}"
EpisodeName(source_name, t) == <<source_name, t>>

\* client.add_episode(content, source_name, episode_type) called by a handler
\* on the Ready client: the name is derived and the ingestion pipeline is
\* called with it.  The call is kept with the handler and the request it
\* came from.
Ingest(t, handler, entry, request, content, source_name, episode_type) ==
    /\ add_episode(t)
    /\ episodes' = IF task'[t].pc = "store"
                   THEN episodes (+)
                        SetToBag({[handler      |-> handler,
                                   entry        |-> entry,
                                   request      |-> request,
                                   name         |-> EpisodeName(source_name, now),
                                   source_name  |-> source_name,
                                   episode_body |-> content,
                                   source       |-> episode_type]})
                   ELSE episodes
    /\ req' = [req EXCEPT ![t] = IF task'[t].pc = "idle" THEN NoReq
                                 ELSE [kind |-> handler, entry |-> entry]]
    /\ resp' = IF task'[t].pc = "idle"
               THEN [kind |-> "episode", success |-> ev'.res = "ok"]
               ELSE NoOut
    /\ UNCHANGED <<nodes, edges, cleared, now>>

\* main.py POST /episodes
main_add_episode(t) ==
    /\ _client # "None"
    /\ \E src \in Sources :
        LET request == [content |-> "c", source |-> src, episode_type |-> "message"]
        IN  Ingest(t, "add_episode", "main", request, <<request.content>>,
                   request.source, request.episode_type)

\* server.py POST /episodes
server_add_episode(t) ==
    /\ graphiti_client # "None"
    /\ \E src \in Sources :
        LET episode == [content |-> "c", source_name |-> src,
                        episode_type |-> "message"]
        IN  Ingest(t, "add_episode", "server", episode, <<episode.content>>,
                   episode.source_name, episode.episode_type)

\* main.py POST /conversations
main_add_conversation(t) ==
    /\ _client # "None"
    /\ \E request \in ConversationRequests :
            Ingest(t, "add_conversation", "main", request,
                   ConversationText(request.messages),
                   SessionSource(request.session_id), "text")

\* server.py POST /conversations: the body is request.get("content", "") and
\* the messages are not read.
server_add_conversation(t) ==
    /\ graphiti_client # "None"
    /\ \E request \in ConversationRequests :
            Ingest(t, "add_conversation", "server", request,
                   Get(request, "content", <<>>),
                   Get(request, "source_name", "conversation"), "json")

\* A handler that calls client.clear_graph() for a request with flag confirm.
Wipeout(t, entry, confirm) ==
    /\ clear_graph(t)
    /\ req' = [req EXCEPT ![t] = IF task'[t].pc = "idle" THEN NoReq
                                 ELSE [kind |-> "clear_graph", entry |-> entry,
                                       confirm |-> confirm]]
    /\ resp' = IF task'[t].pc = "idle"
               THEN [kind |-> "cleared", success |-> ev'.res = "ok"]
               ELSE NoOut
    /\ UNCHANGED <<nodes, edges, cleared, now, episodes>>

\* A handler that raises HTTPException(status) before it calls the client.
Reject(t, o, status) ==
    /\ Call(t)
    /\ ev' = Ev(o, TRUE, "none", "none", "none")
    /\ resp' = [kind |-> "HTTPException", status_code |-> status]
    /\ UNCHANGED <<_client, created, graphiti_client, graphiti, _initialized,
                   closeCalls, provRuns, closedDone, storeUp, task>>
    /\ UNCHANGED <<nodes, edges, cleared, now, episodes, req>>

\* main.py DELETE /graph: the handler has no parameter and calls
\* client.clear_graph() whatever the request carries.
main_clear_graph(t) ==
    /\ _client # "None"
    /\ \E confirm \in BOOLEAN : Wipeout(t, "main", confirm)

\* server.py DELETE /graph: ClearRequest(confirm: bool = False);
\* if not request.confirm: raise HTTPException(status_code=400, ...)
server_clear_graph(t) ==
    /\ graphiti_client # "None"
    /\ \E confirm \in BOOLEAN :
         IF ~confirm
         THEN Reject(t, "DELETE /graph", 400)
         ELSE Wipeout(t, "server", confirm)

\* Time passes between two readings of datetime.now().
Tick ==
    /\ now < MaxTime
    /\ now' = now + 1
    /\ ev' = Ev("env", FALSE, "none", "none", "none")
    /\ resp' = NoOut
    /\ UNCHANGED <<_client, created, graphiti_client, graphiti, _initialized,
                   closeCalls, provRuns, closedDone, storeUp, task, calls>>
    /\ UNCHANGED <<nodes, edges, cleared, episodes, req>>

NextHttp ==
    \/ \E t \in Tasks :
        \/ main_add_episode(t)
        \/ server_add_episode(t)
        \/ main_add_conversation(t)
        \/ server_add_conversation(t)
        \/ main_clear_graph(t)
        \/ server_clear_graph(t)
        \/ StoreResume_g(t)
    \/ Tick

\* The service after startup, as in GraphInit, its store holding a graph.
HttpInit ==
    /\ GraphInit
    /\ nodes = BigNodes

SpecHttp == HttpInit /\ [][NextHttp]_allvars

\* C12: a get_graph_data() called after clear_graph() returned success, with
\* no ingestion between that clear_graph() and its reads, returns
\* node_count = 0 and edge_count = 0 and empty nodes and links.
C12_ClearedSnapshotEmpty ==
    (resp.kind = "snapshot" /\ resp.clean) =>
        /\ resp.data.node_count = 0
        /\ resp.data.edge_count = 0
        /\ resp.data.nodes = 0
        /\ resp.data.links = 0

\* C12 witness: clear_graph() has wiped a graph that had content, nothing
\* was ingested since, and a get_graph_data() called after it has returned a
\* successful snapshot.
C12_Witness ==
    /\ resp.kind = "snapshot"
    /\ resp.clean
    /\ resp.data.success
    /\ cleared = "wiped"
    /\ ev.op = "get_graph_data"

\* C14: the snapshot of get_graph_data() reports success exactly when both
\* get_nodes(200) and get_edges(500) succeeded; the array of a call that
\* succeeded is in the snapshot whatever the other call did, and a call that
\* failed contributes an empty array.
C14_SnapshotSuccess ==
    resp.kind = "snapshot" =>
        /\ resp.data.success =
               (resp.nodes_result.success /\ resp.edges_result.success)
        /\ resp.data.nodes = IF resp.nodes_result.success
                             THEN resp.nodes_result.nodes ELSE 0
        /\ resp.data.links = IF resp.edges_result.success
                             THEN resp.edges_result.edges ELSE 0

\* C14 witness: get_nodes succeeded with a non-empty array, get_edges failed,
\* and the snapshot returned holds the nodes and reports failure.
C14_Witness ==
    /\ resp.kind = "snapshot"
    /\ resp.nodes_result.success
    /\ ~resp.edges_result.success
    /\ resp.nodes_result.nodes > 0
    /\ resp.data.nodes = resp.nodes_result.nodes
    /\ ~resp.data.success

\* C18: get_nodes(limit) returns at most limit nodes and get_edges(limit) at
\* most limit edges, for every limit that is a count (0 included), and a
\* snapshot of get_graph_data() holds at most 200 nodes and 500 links
\* whatever the size of the graph.
C18_LimitRespected ==
    /\ resp.kind = "nodes" => resp.result.nodes <= resp.limit
    /\ resp.kind = "edges" => resp.result.edges <= resp.limit
    /\ resp.kind = "snapshot" =>
           /\ resp.data.nodes <= NodesLimit
           /\ resp.data.links <= EdgesLimit

\* C18 witness: the graph holds more than 200 nodes and more than 500 edges
\* and a successful snapshot holds 200 nodes and 500 links.
C18_Witness ==
    /\ resp.kind = "snapshot"
    /\ resp.data.success
    /\ nodes > NodesLimit
    /\ edges > EdgesLimit
    /\ resp.data.nodes = NodesLimit
    /\ resp.data.links = EdgesLimit

\* C15: the call of the ingestion pipeline made for an add_conversation
\* request (Ingest makes one per request), on either entry point, has a body
\* that holds one role-prefixed line per message of the request, in the order
\* of the request.
C15_ConversationOneEpisode ==
    \A e \in BagToSet(episodes) :
        e.handler = "add_conversation" =>
            /\ Len(e.episode_body) = Len(e.request.messages)
            /\ \A i \in 1..Len(e.request.messages) :
                 /\ e.episode_body[i][1] \in
                        {e.request.messages[i].role,
                         Upper(e.request.messages[i].role)}
                 /\ e.episode_body[i][2] = e.request.messages[i].content

\* C16: a DELETE /graph request without the confirmation flag never invokes
\* the core clear_graph(), on either entry point.
C16_UnconfirmedRejected ==
    \A t \in Tasks :
        (req[t].kind = "clear_graph" /\ ~req[t].confirm) =>
            task[t].op # "clear_graph"

\* C19: two add_episode calls with the same source_name never hand the same
\* episode name to the ingestion pipeline, calls that read the same clock
\* value included.
C19_EpisodeNameUnique ==
    \A e1 \in BagToSet(episodes), e2 \in BagToSet(episodes) :
        (e1.source_name = e2.source_name /\ e1.name = e2.name) =>
            (e1 = e2 /\ CopiesIn(e1, episodes) = 1)

\* C20: get_graphiti_client() is a singleton under concurrency: whatever the
\* interleaving of callers, at most one GraphitiClient is ever constructed,
\* and a call that has returned has returned that one instance (possibly
\* before its initialization has finished).
C20_Singleton ==
    /\ created <= 1
    /\ (ev.op \in StartupOps /\ ev.res \in {"client", "started"}) =>
           (created = 1 /\ _client = "GraphitiClient")

\* C20 witness: a second get_graphiti_client() has returned the client while
\* the first caller, which constructed it, is still awaiting initialize().
C20_Witness ==
    /\ ev.op = "get_graphiti_client"
    /\ ev.call
    /\ ev.res = "client"
    /\ ~_initialized
    /\ created = 1
    /\ \E u \in Tasks : task[u].pc = "build" /\ task[u].op \in StartupOps

\* C21: in every reachable state of the client, Ready implies a connection:
\* whenever _initialized is true, self.graphiti is set, under any
\* interleaving of initialize(), close() and the core operations, failed
\* initializations included.
C21_ReadyHasConnection == _initialized => graphiti # NoConn

\* C21 witness: the client has been closed, an initialize() after that has
\* seen build_indices_and_constraints fail, and the client is Ready on a
\* connection.
C21_Witness ==
    /\ _initialized
    /\ graphiti # NoConn
    /\ closedDone
    /\ ev.init = "done"
    /\ ev.prov = "other"

\* C22: every snapshot returned by get_graph_data() is consistent:
\* node_count is the length of nodes and edge_count the length of links,
\* whether each of the two calls succeeded or failed.
C22_SnapshotConsistent ==
    resp.kind = "snapshot" =>
        /\ resp.data.node_count = resp.data.nodes
        /\ resp.data.edge_count = resp.data.links

\* C22 witness: get_nodes failed, get_edges succeeded with a non-empty
\* array, and the snapshot returned counts no node and every link it holds.
C22_Witness ==
    /\ resp.kind = "snapshot"
    /\ ~resp.nodes_result.success
    /\ resp.edges_result.success
    /\ resp.data.node_count = 0
    /\ resp.data.edge_count > 0
    /\ resp.data.links = resp.data.edge_count

====
